---- MODULE Spec2Model ----
(***************************************************************************)
(* Model of backend/server.py: the /chat/stream endpoint (chat_stream and  *)
(* its event_generator), the two provider adapters and the Mongo-backed    *)
(* message / conversation store they use, and the plain handlers next to  *)
(* it (keys, feedback, catch-up, register, delete_conversation).           *)
(*                                                                         *)
(* Text is a sequence of one-character strings, so that lower(), "in",     *)
(* startswith(), split() and slicing are computed the way Python computes  *)
(* them.  uuid4() is a fresh-id counter, datetime.now() a logical clock.   *)
(***************************************************************************)
EXTENDS Integers, Sequences, FiniteSets, TLC

VARIABLES
    messages,          \* db.messages, in insertion (natural) order
    conversations,     \* db.conversations, in insertion order
    apiKeys,           \* db.users[u].api_keys: partial map provider -> key
    envKey,            \* os.environ EMERGENT_LLM_KEY ("" when unset)
    faulty,            \* TRUE when the store may reject a write
    returned,          \* what the last call made outside a stream returned
    nextId,            \* uuid4() source
    clock,             \* datetime.now() source
    pc,                \* per run: position inside event_generator
    request,           \* per run: ChatRequest plus the current_user snapshot
    conversation_id,   \* per run: local of event_generator
    user_message_id,   \* per run: local of event_generator
    messages_context,  \* per run: local of event_generator
    idx,               \* per run: position of the for loop in request.models
    message_id,        \* per run: local of the loop body
    full_response,     \* per run: local of the loop body
    gen,               \* per run: fragments the open adapter has yet to yield
    events,            \* per run: the outbound SSE event sequence
    adapterCalls,      \* per run: log of adapter invocations (observation only)
    users,             \* db.users, in insertion order
    args               \* per run: the arguments of the plain handler in flight

storeVars == <<messages, conversations, apiKeys, envKey, faulty, returned, nextId,
               clock>>
runVars == <<pc, request, conversation_id, user_message_id, messages_context,
             idx, message_id, full_response, gen, events, adapterCalls>>
handlerVars == <<users, args>>
vars == <<storeVars, runVars, handlerVars>>

----------------------------------------------------------------------------
(* Bounds of the model *)

\* longest request.models list
MaxModels == 2
\* longest provider response an adapter is called on by itself
MaxText == 4
\* most lines a token-stream provider sends in one response
MaxLines == 3
\* most name parts a model string is put together from
MaxParts == 2
\* number of rows the pre-existing conversation holds
MaxPrior == 10

(* Program constants *)

\* .limit(10).to_list(10) of the history query
HistoryLimit == 10
\* prev_messages[-10:] of the single-shot adapter
PreambleLimit == 10
\* request.message[:50]
TitleLimit == 50

----------------------------------------------------------------------------
(* Text helpers *)

Whitespace == {" ", "\n", "\t"}

UpperAlpha == <<"A","B","C","D","E","F","G","H","I","J","K","L","M",
                "N","O","P","Q","R","S","T","U","V","W","X","Y","Z">>
LowerAlpha == <<"a","b","c","d","e","f","g","h","i","j","k","l","m",
                "n","o","p","q","r","s","t","u","v","w","x","y","z">>

LowerChar(c) ==
    IF \E i \in 1..26 : UpperAlpha[i] = c
    THEN LowerAlpha[CHOOSE i \in 1..26 : UpperAlpha[i] = c]
    ELSE c

\* str.lower()
Lower(s) == [i \in 1..Len(s) |-> LowerChar(s[i])]

\* needle in s
Contains(needle, s) ==
    \E i \in 1..(Len(s) - Len(needle) + 1) :
        SubSeq(s, i, i + Len(needle) - 1) = needle

\* s.startswith(p)
StartsWith(s, p) == Len(s) >= Len(p) /\ SubSeq(s, 1, Len(p)) = p

\* s[:n]
Take(s, n) == SubSeq(s, 1, IF Len(s) < n THEN Len(s) ELSE n)

\* s[-n:]
LastN(s, n) == IF Len(s) <= n THEN s ELSE SubSeq(s, Len(s) - n + 1, Len(s))

RECURSIVE SplitFrom(_, _, _)
\* str.split(): maximal runs of non-whitespace characters, in order
SplitFrom(s, i, word) ==
    IF i > Len(s)
    THEN IF word = <<>> THEN <<>> ELSE <<word>>
    ELSE IF s[i] \in Whitespace
         THEN IF word = <<>>
              THEN SplitFrom(s, i + 1, <<>>)
              ELSE <<word>> \o SplitFrom(s, i + 1, <<>>)
         ELSE SplitFrom(s, i + 1, Append(word, s[i]))

Split(s) == SplitFrom(s, 1, <<>>)

RECURSIVE Concat(_)
\* "".join(parts)
Concat(parts) == IF parts = <<>> THEN <<>> ELSE Head(parts) \o Concat(Tail(parts))

\* json.dumps({"error": msg})
JsonError(msg) ==
    <<"{", "\"", "e", "r", "r", "o", "r", "\"", ":", " ", "\"">> \o msg \o <<"\"", "}">>

----------------------------------------------------------------------------
(* Identifiers *)

Uuid(n) == [src |-> "uuid4", n |-> n]
ClientId(n) == [src |-> "client", n |-> n]
\* a key the event or request does not carry (None / not present)
Absent == [src |-> "absent", n |-> 0]

----------------------------------------------------------------------------
(* The store: db.messages and db.conversations *)

\* collection.insert_one(row)
InsertOne(coll, row) == Append(coll, row)

\* db.messages.find({"conversation_id": cid, "user_id": uid})
FindMessages(coll, cid, uid) ==
    SelectSeq(coll, LAMBDA m : m.conversation_id = cid /\ m.user_id = uid)

\* the place of row i once rows are ordered by timestamp, ties in natural order
RankOf(rows, i) ==
    1 + Cardinality({j \in 1..Len(rows) :
                        \/ rows[j].timestamp < rows[i].timestamp
                        \/ rows[j].timestamp = rows[i].timestamp /\ j < i})

\* cursor.sort("timestamp", 1): ascending (rs names the value of rows, so
\* that the query is evaluated once)
SortAscending(rows) ==
    CHOOSE sorted \in
        {[k \in 1..Len(rs) |-> rs[CHOOSE i \in 1..Len(rs) : RankOf(rs, i) = k]] :
            rs \in {rows}} : TRUE

\* find(...).sort("timestamp", 1).limit(10).to_list(10)
HistoryQuery(coll, cid, uid) ==
    Take(SortAscending(FindMessages(coll, cid, uid)), HistoryLimit)

\* messages_context: the role and content of each row of the history
ContextOf(history) ==
    [i \in 1..Len(history) |-> [role |-> history[i].role, content |-> history[i].content]]

----------------------------------------------------------------------------
(* Credentials *)

Providers == {"gpt", "claude", "gemini", "grok", "deepseek", "perplexity"}

\* get_api_key(current_user, provider)
GetApiKey(user_keys, provider, env) ==
    LET user_key == IF provider \in DOMAIN user_keys THEN user_keys[provider] ELSE ""
    IN  IF user_key = "UNIVERSAL" THEN env ELSE user_key

\* {"$set": {"api_keys.<provider>": value}} on one user's document
SetKey(user_keys, provider, value) ==
    [q \in DOMAIN user_keys \cup {provider} |->
        IF q = provider THEN value ELSE user_keys[q]]

\* {"$unset": {"api_keys.<provider>": ""}}
UnsetKey(user_keys, provider) ==
    [q \in DOMAIN user_keys \ {provider} |-> user_keys[q]]

\* an Optional[str] of a request body: None, or a string
None == [present |-> FALSE, value |-> ""]
Str(v) == [present |-> TRUE, value |-> v]

\* the truth value Python gives an Optional[str]
Truthy(opt) == opt.present /\ opt.value # ""

----------------------------------------------------------------------------
(* Routing: the if / elif chain over model_lower *)

NoRule == [rule |-> "none", adapter |-> "none", target |-> "none"]

\* RouteOf with the claude test ahead of the gpt test
RouteOf_ClaudeFirst(model_spec) ==
    LET model_lower == Lower(model_spec) IN
    IF Contains(<<"c","l","a","u","d","e">>, model_lower)
    THEN [rule |-> "claude", adapter |-> "emergent", target |-> "anthropic"]
    ELSE IF Contains(<<"g","p","t">>, model_lower) \/ StartsWith(model_lower, <<"o">>)
    THEN [rule |-> "gpt", adapter |-> "emergent", target |-> "openai"]
    ELSE IF Contains(<<"g","e","m","i","n","i">>, model_lower)
    THEN [rule |-> "gemini", adapter |-> "emergent", target |-> "gemini"]
    ELSE IF Contains(<<"g","r","o","k">>, model_lower)
    THEN [rule |-> "grok", adapter |-> "openai_compatible", target |-> "https://api.x.ai/v1"]
    ELSE IF Contains(<<"d","e","e","p","s","e","e","k">>, model_lower)
    THEN [rule |-> "deepseek", adapter |-> "openai_compatible",
          target |-> "https://api.deepseek.com"]
    ELSE IF Contains(<<"p","e","r","p","l","e","x","i","t","y">>, model_lower)
            \/ Contains(<<"s","o","n","a","r">>, model_lower)
    THEN [rule |-> "perplexity", adapter |-> "openai_compatible",
          target |-> "https://api.perplexity.ai"]
    ELSE NoRule

RouteOf(model_spec) ==
    LET model_lower == Lower(model_spec) IN
    IF Contains(<<"g","p","t">>, model_lower) \/ StartsWith(model_lower, <<"o">>)
    THEN [rule |-> "gpt", adapter |-> "emergent", target |-> "openai"]
    ELSE IF Contains(<<"c","l","a","u","d","e">>, model_lower)
    THEN [rule |-> "claude", adapter |-> "emergent", target |-> "anthropic"]
    ELSE IF Contains(<<"g","e","m","i","n","i">>, model_lower)
    THEN [rule |-> "gemini", adapter |-> "emergent", target |-> "gemini"]
    ELSE IF Contains(<<"g","r","o","k">>, model_lower)
    THEN [rule |-> "grok", adapter |-> "openai_compatible", target |-> "https://api.x.ai/v1"]
    ELSE IF Contains(<<"d","e","e","p","s","e","e","k">>, model_lower)
    THEN [rule |-> "deepseek", adapter |-> "openai_compatible",
          target |-> "https://api.deepseek.com"]
    ELSE IF Contains(<<"p","e","r","p","l","e","x","i","t","y">>, model_lower)
            \/ Contains(<<"s","o","n","a","r">>, model_lower)
    THEN [rule |-> "perplexity", adapter |-> "openai_compatible",
          target |-> "https://api.perplexity.ai"]
    ELSE NoRule

----------------------------------------------------------------------------
(* Provider adapters.  What the provider does is the environment's choice  *)
(* (a reply, a wire script); what the adapter yields for it is computed.   *)

\* user_messages = [msg for msg in messages if msg["role"] == "user"]
UserMessages(msgs) == SelectSeq(msgs, LAMBDA m : m.role = "user")

\* history_parts: the last 10 of messages[:-1], user and assistant rows only
HistoryParts(msgs) ==
    IF Len(msgs) > 1
    THEN SelectSeq(LastN(SubSeq(msgs, 1, Len(msgs) - 1), PreambleLimit),
                   LAMBDA m : m.role \in {"user", "assistant"})
    ELSE <<>>

\* what LlmChat(...).with_model(...).send_message(...) is given
EmergentCall(api_key, model, provider, msgs, cid) ==
    [adapter |-> "emergent", api_key |-> api_key, model |-> model, target |-> provider,
     preamble |-> HistoryParts(msgs),
     user_text |-> IF UserMessages(msgs) = <<>> THEN <<>>
                   ELSE UserMessages(msgs)[Len(UserMessages(msgs))].content]

\* the re-chunking loop: for word in response.split(): yield word + " "
Rechunk(response) ==
    LET words == Split(response) IN [i \in 1..Len(words) |-> words[i] \o <<" ">>]

\* stream_emergent_model: the fragments yielded, given what send_message does
StreamEmergentModel(msgs, reply) ==
    IF UserMessages(msgs) = <<>>
    THEN <<JsonError(<<"N","o"," ","u","s","e","r"," ","m","e","s","s","a","g","e","s",
                       " ","f","o","u","n","d">>)>>
    ELSE IF reply.kind = "raise"
         THEN <<JsonError(reply.text)>>
         ELSE Rechunk(reply.text)

\* stream_emergent_model ended in its except clause or its early return
EmergentFailed(msgs, reply) == UserMessages(msgs) = <<>> \/ reply.kind = "raise"

\* the request stream_openai_compatible posts
OpenAICall(base_url, api_key, model, msgs) ==
    [adapter |-> "openai_compatible", api_key |-> api_key, model |-> model,
     target |-> base_url, preamble |-> msgs, user_text |-> <<>>]

RECURSIVE DecodeLines(_)
\* the async for over response.aiter_lines(), inside the outer try
DecodeLines(lines) ==
    IF lines = <<>> THEN <<>>
    ELSE LET line == Head(lines) IN
         CASE line.kind = "reset"     -> <<JsonError(line.content)>>
           [] line.kind = "other"     -> DecodeLines(Tail(lines))
           [] line.kind = "done"      -> <<>>
           [] line.kind = "malformed" -> DecodeLines(Tail(lines))
           [] line.kind = "badshape"  -> <<JsonError(line.content)>>
           [] line.kind = "delta"     ->
                IF line.content # <<>>
                THEN <<line.content>> \o DecodeLines(Tail(lines))
                ELSE DecodeLines(Tail(lines))

\* stream_openai_compatible: the fragments yielded for one wire script
StreamOpenAICompatible(wire) ==
    IF ~wire.connected THEN <<JsonError(wire.body)>>
    ELSE IF wire.status # 200
         THEN <<JsonError(<<"A","P","I"," ","e","r","r","o","r",":"," ">> \o wire.body)>>
    ELSE DecodeLines(wire.lines)

RECURSIVE DecodeFails(_)
\* the line loop is left through the outer except clause
DecodeFails(lines) ==
    IF lines = <<>> THEN FALSE
    ELSE CASE Head(lines).kind \in {"reset", "badshape"} -> TRUE
           [] Head(lines).kind = "done" -> FALSE
           [] OTHER -> DecodeFails(Tail(lines))

\* stream_openai_compatible yielded an error payload
WireFailed(wire) == ~wire.connected \/ wire.status # 200 \/ DecodeFails(wire.lines)

----------------------------------------------------------------------------
(* The inputs of the model *)

Runs == {"r1", "r2"}
Users == {"alice", "bob"}

\* the keys the two users have stored: alice one explicit key per adapter
\* shape and the shared-key marker for claude, bob none at all
StoredKeys ==
    [u \in Users |->
        IF u = "alice"
        THEN [p \in {"gpt", "claude", "grok"} |->
                CASE p = "gpt" -> "sk-alice" [] p = "claude" -> "UNIVERSAL"
                  [] p = "grok" -> "xai-alice"]
        ELSE [p \in {} |-> ""]]

SharedKeys == {"", "sk-shared"}

GptModel == <<"g","p","t","-","4">>
ClaudeModel == <<"C","l","a","u","d","e">>
GrokModel == <<"g","r","o","k">>
LlamaModel == <<"l","l","a","m","a">>
ModelSpecs == {GptModel, ClaudeModel, GrokModel, LlamaModel}

ModelLists == UNION {[1..n -> ModelSpecs] : n \in 0..MaxModels}

Hello == <<"H","i">>

\* a message one character longer than the title may be
LongMessage ==
    [i \in 1..(TitleLimit + 1) |->
        IF i = 1 THEN "L" ELSE IF i = TitleLimit + 1 THEN "!" ELSE "x"]

\* the conversation the store may already hold, owned by alice
PriorConvId == Uuid(0)

PriorRow(i) ==
    [id |-> Uuid(i), conversation_id |-> PriorConvId,
     role |-> IF i % 2 = 1 THEN "user" ELSE "assistant",
     content |-> IF i % 2 = 1 THEN <<"q">> ELSE <<"a", " ">>,
     model |-> IF i % 2 = 1 THEN <<"u","s","e","r">> ELSE GptModel,
     timestamp |-> i, user_id |-> "alice", feedback |-> "none"]

PriorMessages(n) == [i \in 1..n |-> PriorRow(i)]

PriorConversations(n) ==
    IF n = 0 THEN <<>>
    ELSE <<[id |-> PriorConvId, user_id |-> "alice", title |-> <<"q">>,
            created_at |-> 1, updated_at |-> n]>>

\* ChatRequest declares message: str and models: List[str] without any
\* validator, so the empty message and the empty list are accepted bodies
\* (the empty and the long message are sent to at most one model here)
Requests ==
    {req \in [user : Users, message : {Hello, <<>>, LongMessage}, models : ModelLists,
              conversation_id : {Absent, PriorConvId}] :
        req.message # Hello => Len(req.models) <= 1}

\* what chat.send_message may do
Replies ==
    {[kind |-> "reply", text |-> <<"H","i"," ","y","o">>],
     [kind |-> "reply", text |-> <<>>],
     [kind |-> "raise", text |-> <<"b","o","o","m">>]}

\* what the token-stream provider may put on the wire
WireScripts ==
    {[connected |-> FALSE, status |-> 0, body |-> <<"d","o","w","n">>, lines |-> <<>>],
     [connected |-> TRUE, status |-> 500, body |-> <<"n","o">>, lines |-> <<>>],
     [connected |-> TRUE, status |-> 200, body |-> <<>>,
      lines |-> <<[kind |-> "delta", content |-> <<"a">>],
                  [kind |-> "malformed", content |-> <<>>],
                  [kind |-> "delta", content |-> <<>>],
                  [kind |-> "delta", content |-> <<"b">>],
                  [kind |-> "done", content |-> <<>>],
                  [kind |-> "delta", content |-> <<"c">>]>>],
     [connected |-> TRUE, status |-> 200, body |-> <<>>,
      lines |-> <<[kind |-> "delta", content |-> <<"a">>],
                  [kind |-> "reset", content |-> <<"e","o","f">>]>>]}

----------------------------------------------------------------------------
\* hash_password: bcrypt of the password (the salt is left out)
HashPassword(password) == <<"bcrypt", password>>

\* the user rows behind Users: both registered before anything here happens
\* (their api_keys are kept in apiKeys)
RegisteredUsers ==
    <<[id |-> "alice", username |-> "alice", password |-> HashPassword("pw-a"),
       created_at |-> 0],
      [id |-> "bob", username |-> "bob", password |-> HashPassword("pw-b"),
       created_at |-> 0]>>

\* no plain handler is in flight
NoArgs == [op |-> "none"]

(* Initial state: the store is empty, or holds one earlier conversation of *)
(* MaxPrior rows (user and assistant rows in turn); no run is in progress. *)

InitRuns ==
    /\ pc = [r \in Runs |-> "idle"]
    /\ request = [r \in Runs |-> [user |-> "none", message |-> <<>>, models |-> <<>>,
                                  conversation_id |-> Absent, user_keys |-> <<>>]]
    /\ conversation_id = [r \in Runs |-> Absent]
    /\ user_message_id = [r \in Runs |-> Absent]
    /\ messages_context = [r \in Runs |-> <<>>]
    /\ idx = [r \in Runs |-> 0]
    /\ message_id = [r \in Runs |-> Absent]
    /\ full_response = [r \in Runs |-> <<>>]
    /\ gen = [r \in Runs |-> <<>>]
    /\ events = [r \in Runs |-> <<>>]
    /\ adapterCalls = [r \in Runs |-> <<>>]
    /\ args = [r \in Runs |-> NoArgs]

\* no call outside a stream has been made yet
NoResponse == [op |-> "none", status |-> 0]

InitStore(n) ==
    /\ returned = NoResponse
    /\ users = RegisteredUsers
    /\ messages = PriorMessages(n)
    /\ conversations = PriorConversations(n)
    /\ apiKeys = StoredKeys
    /\ nextId = n + 1
    /\ clock = n + 1

Init ==
    /\ \E n \in {0, MaxPrior} : InitStore(n)
    /\ envKey \in SharedKeys
    /\ faulty = FALSE
    /\ InitRuns

----------------------------------------------------------------------------
(* chat_stream and its event_generator, one action per stretch of code     *)
(* between two suspension points (an await on the store, a yield).         *)

\* whether a store write goes through
WriteOutcomes == IF faulty THEN {TRUE, FALSE} ELSE {TRUE}

Event(kind, r, mid, content, error) ==
    [event |-> kind, model |-> request[r].models[idx[r]], message_id |-> mid,
     content |-> content, error |-> error, entry |-> idx[r]]

NoKeyError ==
    <<"N","o"," ","A","P","I"," ","k","e","y"," ","c","o","n","f","i","g","u","r","e","d">>
StoreError == <<"s","t","o","r","e">>

\* POST /chat/stream: the request is validated and current_user resolved
ChatStream(r, req) ==
    /\ pc[r] = "idle"
    /\ request' = [request EXCEPT ![r] =
                     [user |-> req.user, message |-> req.message, models |-> req.models,
                      conversation_id |-> req.conversation_id,
                      user_keys |-> apiKeys[req.user]]]
    /\ pc' = [pc EXCEPT ![r] = "begin"]
    /\ UNCHANGED <<storeVars, conversation_id, user_message_id,
                   messages_context, idx, message_id, full_response, gen,
                   events, adapterCalls, handlerVars>>

\* InsertUserMessage with the insert left out: the row never reaches the store
InsertUserMessage_NoInsert(r) ==
    /\ pc[r] = "begin"
    /\ LET minted == request[r].conversation_id = Absent IN
         /\ conversation_id' =
              [conversation_id EXCEPT ![r] =
                 IF minted THEN Uuid(nextId) ELSE request[r].conversation_id]
         /\ user_message_id' =
              [user_message_id EXCEPT ![r] = Uuid(IF minted THEN nextId + 1 ELSE nextId)]
         /\ nextId' = IF minted THEN nextId + 2 ELSE nextId + 1
    /\ clock' = clock + 1
    /\ pc' = [pc EXCEPT ![r] = "history"]
    /\ UNCHANGED <<messages, conversations, apiKeys, envKey, faulty, returned,
                   request, messages_context, idx, message_id, full_response,
                   gen, events, adapterCalls, handlerVars>>

\* conversation id, user_msg and db.messages.insert_one(user_msg)
InsertUserMessage(r) ==
    /\ pc[r] = "begin"
    /\ LET minted == request[r].conversation_id = Absent
           cid == IF minted THEN Uuid(nextId) ELSE request[r].conversation_id
           mid == Uuid(IF minted THEN nextId + 1 ELSE nextId)
           user_msg == [id |-> mid, conversation_id |-> cid, role |-> "user",
                        content |-> request[r].message, model |-> <<"u","s","e","r">>,
                        timestamp |-> clock, user_id |-> request[r].user,
                        feedback |-> "none"]
       IN  /\ conversation_id' = [conversation_id EXCEPT ![r] = cid]
           /\ user_message_id' = [user_message_id EXCEPT ![r] = mid]
           /\ nextId' = IF minted THEN nextId + 2 ELSE nextId + 1
           /\ clock' = clock + 1
           /\ \E ok \in WriteOutcomes :
                IF ok
                THEN /\ messages' = InsertOne(messages, user_msg)
                     /\ pc' = [pc EXCEPT ![r] = "history"]
                ELSE /\ messages' = messages
                     /\ pc' = [pc EXCEPT ![r] = "aborted"]
    /\ UNCHANGED <<conversations, apiKeys, envKey, faulty, returned, request,
                   messages_context, idx, message_id, full_response, gen,
                   events, adapterCalls, handlerVars>>

\* the history query and the messages_context built from it
LoadHistory(r) ==
    /\ pc[r] = "history"
    /\ messages_context' =
         [messages_context EXCEPT ![r] =
            ContextOf(HistoryQuery(messages, conversation_id[r], request[r].user))]
    /\ idx' = [idx EXCEPT ![r] = 1]
    /\ pc' = [pc EXCEPT ![r] = "loop"]
    /\ UNCHANGED <<storeVars, request, conversation_id, user_message_id,
                   message_id, full_response, gen, events, adapterCalls,
                   handlerVars>>

\* EmitStart announcing the following model too, as a fan-out would
EmitStart_Eager(r) ==
    /\ pc[r] = "loop"
    /\ idx[r] <= Len(request[r].models)
    /\ message_id' = [message_id EXCEPT ![r] = Uuid(nextId)]
    /\ nextId' = nextId + 2
    /\ full_response' = [full_response EXCEPT ![r] = <<>>]
    /\ events' =
         [events EXCEPT ![r] =
            @ \o [k \in 1..(IF idx[r] < Len(request[r].models) THEN 2 ELSE 1) |->
                    [event |-> "start", model |-> request[r].models[idx[r] + k - 1],
                     message_id |-> Uuid(nextId + k - 1), content |-> <<>>,
                     error |-> <<>>, entry |-> idx[r] + k - 1]]]
    /\ pc' = [pc EXCEPT ![r] = "route"]
    /\ UNCHANGED <<messages, conversations, apiKeys, envKey, faulty, returned,
                   clock, request, conversation_id, user_message_id,
                   messages_context, idx, gen, adapterCalls, handlerVars>>

\* top of the loop body: message_id and the start event
EmitStart(r) ==
    /\ pc[r] = "loop"
    /\ idx[r] <= Len(request[r].models)
    /\ message_id' = [message_id EXCEPT ![r] = Uuid(nextId)]
    /\ nextId' = nextId + 1
    /\ full_response' = [full_response EXCEPT ![r] = <<>>]
    /\ events' = [events EXCEPT ![r] =
                    Append(@, Event("start", r, Uuid(nextId), <<>>, <<>>))]
    /\ pc' = [pc EXCEPT ![r] = "route"]
    /\ UNCHANGED <<messages, conversations, apiKeys, envKey, faulty, returned,
                   clock, request, conversation_id, user_message_id,
                   messages_context, idx, gen, adapterCalls, handlerVars>>

\* MissingKey with a bare "continue": the error event is left out
MissingKey_Silent(r) ==
    /\ idx' = [idx EXCEPT ![r] = @ + 1]
    /\ pc' = [pc EXCEPT ![r] = "loop"]
    /\ UNCHANGED <<gen, adapterCalls, events>>

\* MissingKey with "break" in place of "continue": the loop is left
MissingKey_Break(r) ==
    /\ events' = [events EXCEPT ![r] =
                    Append(@, [event |-> "error", model |-> request[r].models[idx[r]],
                               message_id |-> Absent, content |-> <<>>,
                               error |-> NoKeyError,
                               entry |-> idx[r]])]
    /\ idx' = [idx EXCEPT ![r] = Len(request[r].models) + 1]
    /\ pc' = [pc EXCEPT ![r] = "loop"]
    /\ UNCHANGED <<gen, adapterCalls>>

\* the branch taken when the credential is empty: error event, then continue
MissingKey(r) ==
    /\ events' = [events EXCEPT ![r] =
                    Append(@, Event("error", r, Absent, <<>>, NoKeyError))]
    /\ idx' = [idx EXCEPT ![r] = @ + 1]
    /\ pc' = [pc EXCEPT ![r] = "loop"]
    /\ UNCHANGED <<gen, adapterCalls>>

\* what the adapter of a route may yield, and whether the provider call failed
AdapterRuns(route, msgs) ==
    IF route.adapter = "emergent"
    THEN {[fragments |-> StreamEmergentModel(msgs, reply),
           failed |-> EmergentFailed(msgs, reply)] : reply \in Replies}
    ELSE {[fragments |-> StreamOpenAICompatible(wire),
           failed |-> WireFailed(wire)] : wire \in WireScripts}

\* the adapter call of the matched branch, opened with the resolved key
OpenAdapter(r, route, api_key) ==
    /\ \E run \in AdapterRuns(route, messages_context[r]) :
         /\ gen' = [gen EXCEPT ![r] = run.fragments]
         /\ adapterCalls' =
              [adapterCalls EXCEPT ![r] =
                 Append(@, [entry |-> idx[r], fragments |-> run.fragments,
                            failed |-> run.failed,
                            call |-> IF route.adapter = "emergent"
                                     THEN EmergentCall(api_key, request[r].models[idx[r]],
                                                       route.target, messages_context[r],
                                                       conversation_id[r])
                                     ELSE OpenAICall(route.target, api_key,
                                                     request[r].models[idx[r]],
                                                     messages_context[r])])]
    /\ pc' = [pc EXCEPT ![r] = "stream"]
    /\ UNCHANGED <<events, idx>>

\* Dispatch without the "if not api_key" guard: the adapter is always opened
Dispatch_NoKeyCheck(r) ==
    /\ pc[r] = "route"
    /\ LET route == RouteOf(request[r].models[idx[r]])
           api_key == GetApiKey(request[r].user_keys, route.rule, envKey)
       IN  IF route = NoRule
           THEN /\ pc' = [pc EXCEPT ![r] = "stream"]
                /\ UNCHANGED <<gen, adapterCalls, events, idx>>
           ELSE OpenAdapter(r, route, api_key)
    /\ UNCHANGED <<storeVars, request, conversation_id, user_message_id,
                   messages_context, message_id, full_response, handlerVars>>

\* the if / elif chain: classify, resolve the key, open the adapter
Dispatch(r) ==
    /\ pc[r] = "route"
    /\ LET route == RouteOf(request[r].models[idx[r]])
           api_key == GetApiKey(request[r].user_keys, route.rule, envKey)
       IN  IF route = NoRule
           THEN /\ pc' = [pc EXCEPT ![r] = "stream"]
                /\ UNCHANGED <<gen, adapterCalls, events, idx>>
           ELSE IF api_key = ""
                THEN MissingKey(r)
                ELSE OpenAdapter(r, route, api_key)
    /\ UNCHANGED <<storeVars, request, conversation_id, user_message_id,
                   messages_context, message_id, full_response, handlerVars>>

\* RelayChunk taking the fragments from the back of what the adapter yields
RelayChunk_FromBack(r) ==
    /\ pc[r] = "stream"
    /\ gen[r] # <<>>
    /\ LET chunk == gen[r][Len(gen[r])] IN
         IF chunk # <<>>
         THEN /\ full_response' = [full_response EXCEPT ![r] = @ \o chunk]
              /\ events' = [events EXCEPT ![r] =
                              Append(@, [event |-> "chunk",
                                         model |-> request[r].models[idx[r]],
                                         message_id |-> message_id[r], content |-> chunk,
                                         error |-> <<>>, entry |-> idx[r]])]
         ELSE UNCHANGED <<full_response, events>>
    /\ gen' = [gen EXCEPT ![r] = SubSeq(@, 1, Len(@) - 1)]
    /\ UNCHANGED <<storeVars, pc, request, conversation_id, user_message_id,
                   messages_context, idx, message_id, adapterCalls,
                   handlerVars>>

\* one turn of "async for chunk in ...": accumulate and relay a fragment
RelayChunk(r) ==
    /\ pc[r] = "stream"
    /\ gen[r] # <<>>
    /\ LET chunk == Head(gen[r]) IN
         IF chunk # <<>>
         THEN /\ full_response' = [full_response EXCEPT ![r] = @ \o chunk]
              /\ events' = [events EXCEPT ![r] =
                              Append(@, Event("chunk", r, message_id[r], chunk, <<>>))]
         ELSE UNCHANGED <<full_response, events>>
    /\ gen' = [gen EXCEPT ![r] = Tail(@)]
    /\ UNCHANGED <<storeVars, pc, request, conversation_id, user_message_id,
                   messages_context, idx, message_id, adapterCalls,
                   handlerVars>>

\* SaveMessage with the insert guarded by "if full_response:"
SaveMessage_SkipsEmpty(r) ==
    /\ pc[r] = "stream"
    /\ gen[r] = <<>>
    /\ messages' =
         IF full_response[r] = <<>> THEN messages
         ELSE InsertOne(messages,
                [id |-> message_id[r], conversation_id |-> conversation_id[r],
                 role |-> "assistant", content |-> full_response[r],
                 model |-> request[r].models[idx[r]], timestamp |-> clock,
                 user_id |-> request[r].user, feedback |-> "none"])
    /\ pc' = [pc EXCEPT ![r] = "complete"]
    /\ clock' = clock + 1
    /\ UNCHANGED <<conversations, apiKeys, envKey, faulty, returned, nextId,
                   request, conversation_id, user_message_id, messages_context,
                   message_id, full_response, gen, events, idx, adapterCalls,
                   handlerVars>>

\* assistant_msg and db.messages.insert_one(assistant_msg); a failed write
\* lands in the loop body's except clause
SaveMessage(r) ==
    /\ pc[r] = "stream"
    /\ gen[r] = <<>>
    /\ LET assistant_msg ==
             [id |-> message_id[r], conversation_id |-> conversation_id[r],
              role |-> "assistant", content |-> full_response[r],
              model |-> request[r].models[idx[r]], timestamp |-> clock,
              user_id |-> request[r].user, feedback |-> "none"]
       IN  \E ok \in WriteOutcomes :
             IF ok
             THEN /\ messages' = InsertOne(messages, assistant_msg)
                  /\ pc' = [pc EXCEPT ![r] = "complete"]
                  /\ UNCHANGED <<events, idx>>
             ELSE /\ messages' = messages
                  /\ events' = [events EXCEPT ![r] =
                                  Append(@, Event("error", r, Absent, <<>>, StoreError))]
                  /\ idx' = [idx EXCEPT ![r] = @ + 1]
                  /\ pc' = [pc EXCEPT ![r] = "loop"]
    /\ clock' = clock + 1
    /\ UNCHANGED <<conversations, apiKeys, envKey, faulty, returned, nextId,
                   request, conversation_id, user_message_id, messages_context,
                   message_id, full_response, gen, adapterCalls, handlerVars>>

\* the complete event, then the next model
EmitComplete(r) ==
    /\ pc[r] = "complete"
    /\ events' = [events EXCEPT ![r] =
                    Append(@, Event("complete", r, message_id[r], <<>>, <<>>))]
    /\ idx' = [idx EXCEPT ![r] = @ + 1]
    /\ pc' = [pc EXCEPT ![r] = "loop"]
    /\ UNCHANGED <<storeVars, request, conversation_id, user_message_id,
                   messages_context, message_id, full_response, gen,
                   adapterCalls, handlerVars>>

\* Upsert as a plain insert_one: a row is added whether or not one matches
Upsert_AlwaysInsert(coll, cid, uid, title, now) ==
    Append(coll, [id |-> cid, user_id |-> uid, title |-> title,
                  created_at |-> now + 1, updated_at |-> now])

\* db.conversations.update_one({"id": conversation_id}, ..., upsert=True)
Upsert(coll, cid, uid, title, now) ==
    IF \E i \in 1..Len(coll) : coll[i].id = cid
    THEN LET first == CHOOSE i \in 1..Len(coll) :
                        /\ coll[i].id = cid
                        /\ \A j \in 1..(i - 1) : coll[j].id # cid
         IN  [coll EXCEPT ![first].updated_at = now, ![first].title = title]
    ELSE Append(coll, [id |-> cid, user_id |-> uid, title |-> title,
                       created_at |-> now + 1, updated_at |-> now])

\* UpdateConversation inside the loop: the upsert does not wait for the
\* branches that are still to run
UpdateConversation_Early(r) ==
    /\ pc[r] = "loop"
    /\ conversations' = Upsert(conversations, conversation_id[r], request[r].user,
                               Take(request[r].message, TitleLimit), clock)
    /\ pc' = [pc EXCEPT ![r] = "done"]
    /\ clock' = clock + 2
    /\ UNCHANGED <<messages, apiKeys, envKey, faulty, returned, nextId,
                   request, conversation_id, user_message_id, messages_context,
                   idx, message_id, full_response, gen, events, adapterCalls,
                   handlerVars>>

\* after the loop: the conversation upsert, then the generator returns
UpdateConversation(r) ==
    /\ pc[r] = "loop"
    /\ idx[r] > Len(request[r].models)
    /\ \E ok \in WriteOutcomes :
         IF ok
         THEN /\ conversations' = Upsert(conversations, conversation_id[r],
                                         request[r].user,
                                         Take(request[r].message, TitleLimit), clock)
              /\ pc' = [pc EXCEPT ![r] = "done"]
         ELSE /\ conversations' = conversations
              /\ pc' = [pc EXCEPT ![r] = "aborted"]
    /\ clock' = clock + 2
    /\ UNCHANGED <<messages, apiKeys, envKey, faulty, returned, nextId,
                   request, conversation_id, user_message_id, messages_context,
                   idx, message_id, full_response, gen, events, adapterCalls,
                   handlerVars>>

\* a step of the event_generator of run r
RunStep(r) ==
    \/ InsertUserMessage(r)
    \/ LoadHistory(r)
    \/ EmitStart(r)
    \/ Dispatch(r)
    \/ RelayChunk(r)
    \/ SaveMessage(r)
    \/ EmitComplete(r)
    \/ UpdateConversation(r)

\* one request served against the store
Next ==
    \/ \E req \in Requests : ChatStream("r1", req)
    \/ RunStep("r1")

Spec == Init /\ [][Next]_vars

\* Liveness is checked on the requests of one user against an empty store:
\* with or without the shared key, every kind of branch still occurs.
FairRequests == {req \in Requests : req.user = "alice" /\ req.conversation_id = Absent}

FairInit ==
    /\ InitStore(0)
    /\ envKey \in SharedKeys
    /\ faulty = FALSE
    /\ InitRuns

FairNext ==
    \/ \E req \in FairRequests : ChatStream("r1", req)
    \/ RunStep("r1")

\* the server keeps driving a generator whose client is still connected
FairSpec == FairInit /\ [][FairNext]_vars /\ WF_vars(RunStep("r1"))

\* Two turns, one after the other: the second request is posted once the
\* first run has ended.  Both name the same conversation id, which the
\* store may or may not hold already.
SerialRequests ==
    {req \in Requests : /\ req.models \in {<<>>, <<GptModel>>}
                        /\ req.message # <<>>
                        /\ req.conversation_id = PriorConvId}

NextTurn(req) == pc["r1"] = "done" /\ ChatStream("r2", req)

SerialNext ==
    \/ \E req \in SerialRequests : ChatStream("r1", req)
    \/ RunStep("r1")
    \/ \E req \in SerialRequests : NextTurn(req)
    \/ RunStep("r2")

SerialSpec == Init /\ [][SerialNext]_vars

\* Two runs at once: both requests are posted at any time and the steps of
\* the two generators interleave at their suspension points.
ConcurrentRequests ==
    {req \in Requests : /\ req.message = Hello
                        /\ req.models \in {<<>>, <<GptModel>>, <<LlamaModel, LlamaModel>>}}

\* update_one(..., upsert=True) as the store runs it next to other
\* operations: the filter {"id": conversation_id} is matched first ...
FindConversation(r) ==
    /\ pc[r] = "loop"
    /\ idx[r] > Len(request[r].models)
    /\ pc' = [pc EXCEPT ![r] =
                IF \E k \in 1..Len(conversations) :
                       conversations[k].id = conversation_id[r]
                THEN "update" ELSE "insert"]
    /\ UNCHANGED <<storeVars, request, conversation_id, user_message_id,
                   messages_context, idx, message_id, full_response, gen,
                   events, adapterCalls, handlerVars>>

\* ... and the write follows: $set on the matched row, or the insert of
\* $set and $setOnInsert when none matched.  No unique index on "id" is ever
\* created, so nothing makes the second of two such inserts fail.
WriteConversation(r) ==
    /\ pc[r] \in {"update", "insert"}
    /\ conversations' =
         IF pc[r] = "insert"
         THEN Append(conversations,
                     [id |-> conversation_id[r], user_id |-> request[r].user,
                      title |-> Take(request[r].message, TitleLimit),
                      created_at |-> clock + 1, updated_at |-> clock])
         ELSE Upsert(conversations, conversation_id[r], request[r].user,
                     Take(request[r].message, TitleLimit), clock)
    /\ pc' = [pc EXCEPT ![r] = "done"]
    /\ clock' = clock + 2
    /\ UNCHANGED <<messages, apiKeys, envKey, faulty, returned, nextId,
                   request, conversation_id, user_message_id, messages_context,
                   idx, message_id, full_response, gen, events, adapterCalls,
                   handlerVars>>

\* a step of the event_generator of run r while another run is in progress
ConcurrentStep(r) ==
    \/ InsertUserMessage(r)
    \/ LoadHistory(r)
    \/ EmitStart(r)
    \/ Dispatch(r)
    \/ RelayChunk(r)
    \/ SaveMessage(r)
    \/ EmitComplete(r)
    \/ FindConversation(r)
    \/ WriteConversation(r)

ConcurrentNext ==
    \/ \E req \in ConcurrentRequests : ChatStream("r1", req)
    \/ ConcurrentStep("r1")
    \/ \E req \in ConcurrentRequests : ChatStream("r2", req)
    \/ ConcurrentStep("r2")

ConcurrentSpec == FairInit /\ [][ConcurrentNext]_vars

\* the bodies PUT /keys is called with: APIKeyUpdate, for three of the six
\* providers
KeyProviders == {"gpt", "claude", "grok"}

KeyUpdates ==
    [provider : KeyProviders,
     api_key : {None, Str(""), Str("sk-new"), Str("UNIVERSAL")},
     use_universal : BOOLEAN]

\* PUT /keys: update_api_key(key_data, current_user)
UpdateApiKey(u, key_data) ==
    /\ apiKeys' =
         [apiKeys EXCEPT ![u] =
            IF key_data.use_universal
            THEN SetKey(@, key_data.provider, "UNIVERSAL")
            ELSE IF Truthy(key_data.api_key)
                 THEN SetKey(@, key_data.provider, key_data.api_key.value)
                 ELSE UnsetKey(@, key_data.provider)]
    /\ UNCHANGED <<messages, conversations, envKey, faulty, returned, nextId,
                   clock, runVars, handlerVars>>

\* users managing their keys
KeyNext == \E u \in Users, key_data \in KeyUpdates : UpdateApiKey(u, key_data)

KeySpec == Init /\ [][KeyNext]_vars

\* to_list(1000) of the catch-up query
CatchupLimit == 1000

\* "sep".join(parts)
RECURSIVE Join(_, _)
Join(sep, parts) ==
    IF parts = <<>> THEN <<>>
    ELSE IF Len(parts) = 1 THEN parts[1]
    ELSE parts[1] \o sep \o Join(sep, Tail(parts))

CatchupHeader ==
    <<"H","e","r","e"," ","i","s"," ","t","h","e"," ","c","o","n","v","e","r",
          "s","a","t","i","o","n"," ","h","i","s","t","o","r","y"," ","t","o",
          " ","c","a","t","c","h"," ","y","o","u"," ","u","p",":","\n">>

CatchupFooter ==
    <<"\n","Y","o","u"," ","a","r","e"," ","n","o","w"," ","c","a","u","g",
          "h","t"," ","u","p","."," ","P","l","e","a","s","e"," ","a","c","k",
          "n","o","w","l","e","d","g","e"," ","t","h","a","t"," ","y","o","u",
          " ","u","n","d","e","r","s","t","a","n","d"," ","t","h","e"," ","c",
          "o","n","v","e","r","s","a","t","i","o","n"," ","c","o","n","t","e",
          "x","t",".">>

\* db.messages.find_one({"id": msg_id, "user_id": uid}): the rows found for
\* the ids, in the order of the ids (an id without a row adds nothing)
RECURSIVE FindEach(_, _, _)
FindEach(coll, message_ids, uid) ==
    IF message_ids = <<>> THEN <<>>
    ELSE LET found == SelectSeq(coll, LAMBDA m : m.id = Head(message_ids)
                                               /\ m.user_id = uid)
         IN  (IF found = <<>> THEN <<>> ELSE <<found[1]>>)
                \o FindEach(coll, Tail(message_ids), uid)

\* the messages catchup_models sends: the selected ones, or the whole
\* conversation, by timestamp
CatchupSource(coll, creq, uid) ==
    IF creq.message_ids # <<>>
    THEN SortAscending(FindEach(coll, creq.message_ids, uid))
    ELSE Take(SortAscending(FindMessages(coll, creq.conversation_id, uid)), CatchupLimit)

\* the line of the prompt a message contributes, if any
CatchupLines(msgs) ==
    LET kept == SelectSeq(msgs, LAMBDA m : m.role \in {"user", "assistant"})
    IN  [i \in 1..Len(kept) |->
            IF kept[i].role = "user"
            THEN <<"U","s","e","r",":"," ">> \o kept[i].content
            ELSE kept[i].model \o <<":"," ">> \o kept[i].content]

\* catchup_message = "\n\n".join(catchup_parts)
CatchupMessage(msgs) ==
    Join(<<"\n", "\n">>, <<CatchupHeader>> \o CatchupLines(msgs) \o <<CatchupFooter>>)

\* the bodies POST /chat/catchup is called with (message_ids empty: None)
CatchupRequests ==
    [conversation_id : {PriorConvId, ClientId(1)},
     new_models : {ml \in ModelLists : Len(ml) >= 1},
     message_ids : {<<>>, <<Uuid(2), Uuid(1)>>, <<ClientId(1)>>}]

\* POST /chat/catchup: catchup_models(request, current_user).  chat_request
\* is built and never used: the handler returns without calling chat_stream.
CatchupModels(u, creq) ==
    /\ LET found == CatchupSource(messages, creq, u) IN
         returned' =
            IF found = <<>>
            THEN [op |-> "catchup", status |-> 404, user |-> u, models |-> <<>>,
                  message_count |-> 0,
                  chat_request |-> [message |-> <<>>, models |-> <<>>,
                                    conversation_id |-> Absent]]
            ELSE [op |-> "catchup", status |-> 200, user |-> u,
                  models |-> creq.new_models, message_count |-> Len(found),
                  chat_request |-> [message |-> CatchupMessage(found),
                                    models |-> creq.new_models,
                                    conversation_id |-> creq.conversation_id]]
    /\ UNCHANGED <<messages, conversations, apiKeys, envKey, faulty, nextId,
                   clock, runVars, handlerVars>>

\* users asking for a catch-up of new models
CatchupNext == \E u \in Users, creq \in CatchupRequests : CatchupModels(u, creq)

CatchupSpec == Init /\ [][CatchupNext]_vars

\* the bodies POST /chat/feedback is called with: MessageFeedback
FeedbackBodies ==
    [message_id : {Uuid(1), Uuid(2), ClientId(1)}, feedback : {"up", "down"}]

\* the first row update_one's filter {"id": ..., "user_id": ...} matches (0: none)
MatchedRow(coll, mid, uid) ==
    IF \E k \in 1..Len(coll) : coll[k].id = mid /\ coll[k].user_id = uid
    THEN CHOOSE k \in 1..Len(coll) :
            /\ coll[k].id = mid /\ coll[k].user_id = uid
            /\ \A j \in 1..(k - 1) : ~(coll[j].id = mid /\ coll[j].user_id = uid)
    ELSE 0

\* result.modified_count: a matched row counts only if $set changed it
ModifiedCount(coll, k, value) ==
    IF k # 0 /\ coll[k].feedback # value THEN 1 ELSE 0

\* SubmitFeedback with the filter on the message id alone
SubmitFeedback_AnyOwner(u, feedback) ==
    /\ LET k == IF \E j \in 1..Len(messages) : messages[j].id = feedback.message_id
                THEN CHOOSE j \in 1..Len(messages) :
                        messages[j].id = feedback.message_id
                ELSE 0
           modified_count == ModifiedCount(messages, k, feedback.feedback)
       IN  /\ messages' = IF k # 0
                          THEN [messages EXCEPT ![k].feedback = feedback.feedback]
                          ELSE messages
           /\ returned' = [op |-> "feedback",
                           status |-> IF modified_count = 0 THEN 404 ELSE 200,
                           user |-> u, message_id |-> feedback.message_id,
                           feedback |-> feedback.feedback]
    /\ UNCHANGED <<conversations, apiKeys, envKey, faulty, nextId, clock,
                   runVars, handlerVars>>

\* POST /chat/feedback: submit_feedback(feedback, current_user)
SubmitFeedback(u, feedback) ==
    /\ LET k == MatchedRow(messages, feedback.message_id, u)
           modified_count == ModifiedCount(messages, k, feedback.feedback)
       IN  /\ messages' = IF k # 0
                          THEN [messages EXCEPT ![k].feedback = feedback.feedback]
                          ELSE messages
           /\ returned' = [op |-> "feedback",
                           status |-> IF modified_count = 0 THEN 404 ELSE 200,
                           user |-> u, message_id |-> feedback.message_id,
                           feedback |-> feedback.feedback]
    /\ UNCHANGED <<conversations, apiKeys, envKey, faulty, nextId, clock,
                   runVars, handlerVars>>

\* users rating messages
FeedbackNext == \E u \in Users, feedback \in FeedbackBodies : SubmitFeedback(u, feedback)

FeedbackSpec == Init /\ [][FeedbackNext]_vars

\* the provider responses the single-shot adapter is called on by itself:
\* every text of words, spaces and line breaks up to the bound
ResponseAlphabet == {"a", " ", "\n"}
ProviderResponses == UNION {[1..n -> ResponseAlphabet] : n \in 0..MaxText}

\* stream_emergent_model(...) consumed to its end, for a conversation of one
\* user message and a provider that answers text
CallEmergent(text) ==
    /\ returned' =
         [op |-> "stream_emergent_model", response |-> text,
          fragments |-> StreamEmergentModel(<<[role |-> "user", content |-> Hello]>>,
                                            [kind |-> "reply", text |-> text])]
    /\ UNCHANGED <<messages, conversations, apiKeys, envKey, faulty, nextId,
                   clock, runVars, handlerVars>>

EmergentNext == \E text \in ProviderResponses : CallEmergent(text)

EmergentSpec == Init /\ [][EmergentNext]_vars

\* the lines a token-stream provider may send: one without the "data: "
\* prefix, the [DONE] sentinel, a payload that is not JSON, a JSON payload
\* without choices[0].delta (an empty choices list, a null delta), and delta
\* payloads with and without content
WireLines ==
    {[kind |-> "other", content |-> <<>>],
     [kind |-> "done", content |-> <<>>],
     [kind |-> "malformed", content |-> <<>>],
     [kind |-> "badshape", content |-> <<"i","n","d","e","x">>],
     [kind |-> "delta", content |-> <<>>],
     [kind |-> "delta", content |-> <<"a">>],
     [kind |-> "delta", content |-> <<"b">>]}

\* the responses the token-stream adapter is called on by itself
WireResponses ==
    [connected : {TRUE}, status : {200, 500}, body : {<<"n","o">>},
     lines : UNION {[1..n -> WireLines] : n \in 0..MaxLines}]

\* stream_openai_compatible(...) consumed to its end
CallOpenAICompatible(wire) ==
    /\ returned' = [op |-> "stream_openai_compatible", wire |-> wire,
                    fragments |-> StreamOpenAICompatible(wire)]
    /\ UNCHANGED <<messages, conversations, apiKeys, envKey, faulty, nextId,
                   clock, runVars, handlerVars>>

WireNext == \E wire \in WireResponses : CallOpenAICompatible(wire)

WireSpec == Init /\ [][WireNext]_vars

\* the model strings classification is tried on: up to MaxParts name parts
\* put together, in either case, so that a string may match several rules
NameParts ==
    {<<"g","p","t">>, <<"G","P","T">>, <<"o">>, <<"c","l","a","u","d","e">>,
     <<"C","l","a","u","d","e">>, <<"g","e","m","i","n","i">>, <<"g","r","o","k">>,
     <<"d","e","e","p","s","e","e","k">>, <<"p","e","r","p","l","e","x","i","t","y">>,
     <<"s","o","n","a","r">>, <<"x","-">>}

ModelStrings ==
    UNION {{Concat(parts) : parts \in [1..n -> NameParts]} : n \in 1..MaxParts}

\* the head of the loop body on its own: the branch of the if / elif chain
\* taken for model_spec and the key that branch looks up for the user.  The
\* branch taken depends on model_spec and the stored keys only, so a behaviour
\* classifies one string.
Classify(u, model_spec) ==
    /\ returned = NoResponse
    /\ LET route == RouteOf(model_spec) IN
         returned' = [op |-> "route", user |-> u, model_spec |-> model_spec,
                      route |-> route,
                      api_key |-> GetApiKey(apiKeys[u], route.rule, envKey)]
    /\ UNCHANGED <<messages, conversations, apiKeys, envKey, faulty, nextId,
                   clock, runVars, handlerVars>>

RouteNext == \E u \in Users, model_spec \in ModelStrings : Classify(u, model_spec)

RouteSpec == Init /\ [][RouteNext]_vars

\* session_id = f"{conversation_id}-{model}" if conversation_id
\*              else str(uuid.uuid4()), over the characters of the two texts
SessionId(cid, model, fresh) ==
    IF cid # <<>> THEN cid \o <<"-">> \o model ELSE fresh

\* the texts a client may send as conversation id and as model name
SessionAlphabet == {"o", "-"}
SessionTexts == UNION {[1..n -> SessionAlphabet] : n \in 1..(MaxText - 1)}

\* request.conversation_id, which chat_stream passes on when it is not empty
ClientConversationIds == SessionTexts

\* the model names among them that the if / elif chain hands to
\* stream_emergent_model
SessionModels == {model \in SessionTexts : RouteOf(model).adapter = "emergent"}

\* the session LlmChat is created with for one branch of a run
OpenSession(cid, model) ==
    /\ returned' = [op |-> "session", conversation_id |-> cid, model |-> model,
                    session_id |-> SessionId(cid, model, <<"u", "u", "i", "d">>)]
    /\ UNCHANGED <<messages, conversations, apiKeys, envKey, faulty, nextId,
                   clock, runVars, handlerVars>>

SessionNext ==
    \E cid \in ClientConversationIds, model \in SessionModels : OpenSession(cid, model)

SessionSpec == Init /\ [][SessionNext]_vars

\* the bodies POST /auth/register is called with: UserCreate, for a
\* username that is taken and one that is free
UserBodies == [username : {"alice", "carol"}, password : {"pw-1", "pw-2"}]

\* existing_user = await db.users.find_one({"username": user_data.username})
FindUser(coll, username) == {k \in 1..Len(coll) : coll[k].username = username}

\* POST /auth/register up to its second await: the find_one, and the 400
\* when a row was found
Register(r, user_data) ==
    /\ pc[r] = "idle"
    /\ args' = [args EXCEPT ![r] = [op |-> "register", user_data |-> user_data]]
    /\ IF FindUser(users, user_data.username) # {}
       THEN /\ pc' = [pc EXCEPT ![r] = "rejected"]
            /\ returned' = [op |-> "register", status |-> 400,
                            username |-> user_data.username]
       ELSE /\ pc' = [pc EXCEPT ![r] = "create"]
            /\ UNCHANGED returned
    /\ UNCHANGED <<messages, conversations, apiKeys, envKey, faulty, nextId, clock,
                   users, request, conversation_id, user_message_id,
                   messages_context, idx, message_id, full_response, gen, events,
                   adapterCalls>>

\* the rest of register: the user document, db.users.insert_one(user) and
\* the TokenResponse
InsertUser(r) ==
    /\ pc[r] = "create"
    /\ users' = Append(users,
                       [id |-> Uuid(nextId),
                        username |-> args[r].user_data.username,
                        password |-> HashPassword(args[r].user_data.password),
                        created_at |-> clock])
    /\ returned' = [op |-> "register", status |-> 200,
                    username |-> args[r].user_data.username]
    /\ pc' = [pc EXCEPT ![r] = "registered"]
    /\ nextId' = nextId + 1
    /\ clock' = clock + 1
    /\ UNCHANGED <<messages, conversations, apiKeys, envKey, faulty, args, request,
                   conversation_id, user_message_id, messages_context, idx,
                   message_id, full_response, gen, events, adapterCalls>>

\* two register calls in flight together
RegisterNext ==
    \/ \E user_data \in UserBodies : Register("r1", user_data)
    \/ InsertUser("r1")
    \/ \E user_data \in UserBodies : Register("r2", user_data)
    \/ InsertUser("r2")

RegisterSpec == Init /\ [][RegisterNext]_vars

\* db.conversations.delete_one({"id": ..., "user_id": ...}): the first match
DeleteOne(coll, cid, uid) ==
    LET matches == {k \in 1..Len(coll) : coll[k].id = cid /\ coll[k].user_id = uid} IN
    IF matches = {} THEN coll
    ELSE LET first == CHOOSE k \in matches : \A l \in matches : k <= l
         IN  SubSeq(coll, 1, first - 1) \o SubSeq(coll, first + 1, Len(coll))

\* db.messages.delete_many({"conversation_id": ..., "user_id": ...})
DeleteMany(coll, cid, uid) ==
    SelectSeq(coll, LAMBDA m : ~(m.conversation_id = cid /\ m.user_id = uid))

\* DELETE /conversations/{conversation_id} up to its second await
DeleteConversation(r, u, cid) ==
    /\ pc[r] = "idle"
    /\ args' = [args EXCEPT ![r] = [op |-> "delete_conversation",
                                    conversation_id |-> cid, current_user |-> u]]
    /\ conversations' = DeleteOne(conversations, cid, u)
    /\ pc' = [pc EXCEPT ![r] = "delete_messages"]
    /\ UNCHANGED <<messages, apiKeys, envKey, faulty, returned, nextId, clock, users,
                   request, conversation_id, user_message_id, messages_context,
                   idx, message_id, full_response, gen, events, adapterCalls>>

\* the rest of delete_conversation: the delete_many and the answer
DeleteMessages(r) ==
    /\ pc[r] = "delete_messages"
    /\ messages' = DeleteMany(messages, args[r].conversation_id, args[r].current_user)
    /\ returned' = [op |-> "delete_conversation", status |-> 200,
                    user |-> args[r].current_user,
                    conversation_id |-> args[r].conversation_id]
    /\ pc' = [pc EXCEPT ![r] = "deleted"]
    /\ UNCHANGED <<conversations, apiKeys, envKey, faulty, nextId, clock,
                   handlerVars, request, conversation_id, user_message_id,
                   messages_context, idx, message_id, full_response, gen, events,
                   adapterCalls>>

\* the runs a delete may overlap: one turn on the conversation being deleted
DeleteRequests ==
    {req \in Requests : /\ req.message = Hello
                        /\ req.models \in {<<>>, <<GptModel>>}
                        /\ req.conversation_id = PriorConvId}

\* a chat_stream run and a delete_conversation call at once
DeleteNext ==
    \/ \E req \in DeleteRequests : ChatStream("r1", req)
    \/ RunStep("r1")
    \/ \E u \in Users : DeleteConversation("r2", u, PriorConvId)
    \/ DeleteMessages("r2")

DeleteSpec == Init /\ [][DeleteNext]_vars

\* where event_generator can be suspended: at an await on the store or on
\* the adapter, or at a yield
SuspensionPoints == {"begin", "history", "loop", "route", "stream", "complete"}

\* Cancel caught by the loop body's except clause, as "except BaseException"
\* would: the error event of the current model is still sent
Cancel_CaughtByExcept(r) ==
    /\ pc[r] \in SuspensionPoints
    /\ pc' = [pc EXCEPT ![r] = "cancelled"]
    /\ events' = [events EXCEPT ![r] =
                    IF pc[r] \in {"route", "stream", "complete"}
                    THEN Append(@, Event("error", r, Absent, <<>>, <<>>))
                    ELSE @]
    /\ UNCHANGED <<storeVars, request, conversation_id, user_message_id,
                   messages_context, idx, message_id, full_response, gen,
                   adapterCalls, handlerVars>>

\* the client disconnects: EventSourceResponse cancels the task iterating
\* event_generator, which is closed where it stands.  CancelledError and
\* GeneratorExit are not Exceptions, so the except clause of the loop body
\* lets them through, and there is no finally clause to run.
Cancel(r) ==
    /\ pc[r] \in SuspensionPoints
    /\ pc' = [pc EXCEPT ![r] = "cancelled"]
    /\ UNCHANGED <<storeVars, request, conversation_id, user_message_id,
                   messages_context, idx, message_id, full_response, gen,
                   events, adapterCalls, handlerVars>>

\* a client that may disconnect at any point of the stream
CancelNext ==
    \/ \E req \in FairRequests : ChatStream("r1", req)
    \/ RunStep("r1")
    \/ Cancel("r1")

CancelSpec == FairInit /\ [][CancelNext]_vars

\* The store may reject any write (insert_one or update_one raises): one
\* user's requests against a store that starts empty.
FaultRequests == {req \in Requests : req.user = "alice" /\ req.message = Hello}

FaultInit ==
    /\ InitStore(0)
    /\ envKey \in SharedKeys
    /\ faulty = TRUE
    /\ InitRuns

FaultNext ==
    \/ \E req \in FaultRequests : ChatStream("r1", req)
    \/ RunStep("r1")

FaultSpec == FaultInit /\ [][FaultNext]_vars

----------------------------------------------------------------------------
(* Observations the properties are stated over *)

TheRun == "r1"

Entries(r) == 1..Len(request[r].models)

\* the events of one entry of request.models, in emission order
EventsOf(r, i) == SelectSeq(events[r], LAMBDA e : e.entry = i)

Kinds(evs) == [k \in 1..Len(evs) |-> evs[k].event]

Terminal == {"complete", "error"}

\* how many events of the given kinds entry i has
CountOf(r, i, kinds) ==
    Cardinality({k \in 1..Len(events[r]) :
                    events[r][k].entry = i /\ events[r][k].event \in kinds})

\* the loop has left entry i behind
Finished(r, i) == pc[r] \notin {"idle", "begin", "history"} /\ idx[r] > i

Recognized(r, i) == RouteOf(request[r].models[i]) # NoRule

KeyOf(r, i) ==
    GetApiKey(request[r].user_keys, RouteOf(request[r].models[i]).rule, envKey)

\* the message ids announced by the start events of entry i
StartIds(r, i) ==
    {EventsOf(r, i)[k].message_id :
        k \in {k \in 1..Len(EventsOf(r, i)) : EventsOf(r, i)[k].event = "start"}}

\* the assistant rows stored for entry i
RowsOf(r, i) ==
    SelectSeq(messages, LAMBDA m : m.role = "assistant" /\ m.id \in StartIds(r, i))

CallsOf(r, i) == SelectSeq(adapterCalls[r], LAMBDA c : c.entry = i)

----------------------------------------------------------------------------
(* C1: for every entry of the model list that is a recognized model with a *)
(* non-empty credential there is never more than one start event, terminal *)
(* event or assistant row, and once the loop has left the entry there is   *)
(* exactly one of each, whatever the adapter yielded.                      *)
C1_OneStartOneTerminalOneRow ==
    \A i \in Entries(TheRun) :
        (Recognized(TheRun, i) /\ KeyOf(TheRun, i) # "") =>
            /\ CountOf(TheRun, i, {"start"}) <= 1
            /\ CountOf(TheRun, i, Terminal) <= 1
            /\ Len(RowsOf(TheRun, i)) <= 1
            /\ Finished(TheRun, i) =>
                 /\ CountOf(TheRun, i, {"start"}) = 1
                 /\ CountOf(TheRun, i, Terminal) = 1
                 /\ Len(RowsOf(TheRun, i)) = 1

\* a finished run in which one keyed entry's adapter failed and another's
\* yielded nothing at all
C1_Witness ==
    /\ pc[TheRun] = "done"
    /\ \E i, j \in Entries(TheRun) :
         /\ Recognized(TheRun, i) /\ KeyOf(TheRun, i) # ""
         /\ Recognized(TheRun, j) /\ KeyOf(TheRun, j) # ""
         /\ Len(CallsOf(TheRun, i)) = 1 /\ CallsOf(TheRun, i)[1].failed
         /\ Len(CallsOf(TheRun, j)) = 1 /\ CallsOf(TheRun, j)[1].fragments = <<>>

(* C2: after a run has finished the store holds exactly one new user row   *)
(* for the turn and exactly one new assistant row for each requested       *)
(* model, also for the models whose branch ended in an error.              *)
C2_OneRowPerRequestedModel ==
    pc[TheRun] = "done" =>
        /\ Len(SelectSeq(messages, LAMBDA m : m.id = user_message_id[TheRun]
                                              /\ m.role = "user")) = 1
        /\ \A i \in Entries(TheRun) : Len(RowsOf(TheRun, i)) = 1

\* entry i: the start is its first event and no other is, and nothing of the
\* entry follows a terminal event
WellFormedBranch(r, i) ==
    \A k \in 1..Len(events[r]) :
        events[r][k].entry = i =>
            /\ (events[r][k].event = "start")
                 <=> (\A j \in 1..(k - 1) : events[r][j].entry # i)
            /\ (events[r][k].event \in Terminal)
                 => (\A j \in (k + 1)..Len(events[r]) : events[r][j].entry # i)

(* C3: for every recognized model of the request, with or without a       *)
(* credential, the branch's events are a start, then chunks, then at most  *)
(* one terminal event after which nothing follows; and once the request is *)
(* being served the start and a terminal event are eventually emitted.     *)
C3_StartThenTerminal ==
    /\ [](\A i \in Entries(TheRun) :
            Recognized(TheRun, i) => WellFormedBranch(TheRun, i))
    /\ \A i \in 1..MaxModels :
         (pc[TheRun] = "begin" /\ i \in Entries(TheRun) /\ Recognized(TheRun, i))
            ~> (/\ CountOf(TheRun, i, {"start"}) = 1
                /\ CountOf(TheRun, i, Terminal) = 1)

\* a finished run with a recognized model that had no credential and one
\* that streamed chunks, each with its start and its terminal event
C3_Witness ==
    /\ pc[TheRun] = "done"
    /\ \E i, j \in Entries(TheRun) :
         /\ Recognized(TheRun, i) /\ KeyOf(TheRun, i) = ""
         /\ Kinds(EventsOf(TheRun, i)) = <<"start", "error">>
         /\ Recognized(TheRun, j) /\ KeyOf(TheRun, j) # ""
         /\ Len(EventsOf(TheRun, j)) > 2
         /\ Kinds(EventsOf(TheRun, j))[Len(EventsOf(TheRun, j))] = "complete"

\* the contents of the chunk events of entry i, in emission order
ChunksOf(r, i) ==
    LET chunks == SelectSeq(events[r], LAMBDA e : e.entry = i /\ e.event = "chunk")
    IN  [k \in 1..Len(chunks) |-> chunks[k].content]

NonEmpty(fragments) == SelectSeq(fragments, LAMBDA f : f # <<>>)

\* what the adapter of entry i yielded (nothing when it was not invoked)
ProducedFor(r, i) ==
    IF CallsOf(r, i) = <<>> THEN <<>> ELSE CallsOf(r, i)[1].fragments

MissingCredential(r, i) == Recognized(r, i) /\ KeyOf(r, i) = ""

\* the provider call made for entry i failed
AdapterFailed(r, i) ==
    \E k \in 1..Len(adapterCalls[r]) :
        adapterCalls[r][k].entry = i /\ adapterCalls[r][k].failed

\* the branch of entry i failed: no credential, or the provider call failed
BranchFailed(r, i) == MissingCredential(r, i) \/ AdapterFailed(r, i)

C5_AdapterFailureEndsInError ==
    \A i \in Entries(TheRun) :
        (Finished(TheRun, i) /\ AdapterFailed(TheRun, i)) =>
            /\ CountOf(TheRun, i, {"error"}) = 1
            /\ CountOf(TheRun, i, {"complete"}) = 0

(* C6: when the credential resolved for a model's provider family is empty *)
(* the adapter is never invoked for that model and it gets no chunk event, *)
(* and the event that follows its start event is its error event.          *)
C6_MissingKeyShortCircuits ==
    \A i \in Entries(TheRun) :
        MissingCredential(TheRun, i) =>
            /\ CallsOf(TheRun, i) = <<>>
            /\ CountOf(TheRun, i, {"chunk"}) = 0
            /\ Finished(TheRun, i) =>
                 \E k \in 1..(Len(events[TheRun]) - 1) :
                    /\ events[TheRun][k].entry = i
                    /\ events[TheRun][k].event = "start"
                    /\ events[TheRun][k + 1].entry = i
                    /\ events[TheRun][k + 1].event = "error"

\* the loop has passed a model whose stored key is the shared-key marker
\* while the shared key is unset
C6_Witness ==
    \E i \in Entries(TheRun) :
        /\ Finished(TheRun, i)
        /\ MissingCredential(TheRun, i)
        /\ RouteOf(request[TheRun].models[i]).rule \in DOMAIN request[TheRun].user_keys
        /\ request[TheRun].user_keys[RouteOf(request[TheRun].models[i]).rule] = "UNIVERSAL"

C8_ChunksInAdapterOrder ==
    \A i \in Entries(TheRun) :
        ChunksOf(TheRun, i)
            \o (IF idx[TheRun] = i /\ pc[TheRun] = "stream"
                THEN NonEmpty(gen[TheRun]) ELSE <<>>)
          = NonEmpty(ProducedFor(TheRun, i))

\* a branch is over whose adapter yielded two different fragments
C8_Witness ==
    \E i \in Entries(TheRun) :
        /\ Finished(TheRun, i)
        /\ Len(ProducedFor(TheRun, i)) >= 2
        /\ ProducedFor(TheRun, i)[1] # ProducedFor(TheRun, i)[2]
        /\ Len(ChunksOf(TheRun, i)) >= 2

\* the history query of the run has been made
HistoryLoaded(r) == pc[r] \in {"loop", "route", "stream", "complete", "done"}

\* the user row of the run is in the store
UserRowStored(r) ==
    \E k \in 1..Len(messages) :
        /\ messages[k].id = user_message_id[r]
        /\ messages[k].role = "user"
        /\ messages[k].content = request[r].message
        /\ messages[k].conversation_id = conversation_id[r]
        /\ messages[k].user_id = request[r].user

(* C9: in every run the user's row is in the store by the time the history *)
(* is loaded, by the time any event (so any start) is emitted and by the   *)
(* time any provider adapter is invoked; a history shorter than the limit  *)
(* therefore ends with the user's message.                                 *)
C9_UserRowBeforeEverythingElse ==
    /\ (\/ HistoryLoaded(TheRun)
        \/ events[TheRun] # <<>>
        \/ adapterCalls[TheRun] # <<>>) => UserRowStored(TheRun)
    /\ (HistoryLoaded(TheRun) /\ Len(messages_context[TheRun]) < HistoryLimit) =>
          /\ messages_context[TheRun] # <<>>
          /\ messages_context[TheRun][Len(messages_context[TheRun])]
               = [role |-> "user", content |-> request[TheRun].message]

\* an adapter has just been opened for the first model of a run
C9_Witness ==
    /\ pc[TheRun] = "stream"
    /\ idx[TheRun] = 1
    /\ Len(adapterCalls[TheRun]) = 1
    /\ Len(events[TheRun]) = 1
    /\ UserRowStored(TheRun)

(* C10: the context loaded for a request holds at most 10 messages, and    *)
(* when the conversation has more than 10 stored messages it holds the 10  *)
(* most recent ones, oldest first (stated right after the history query,   *)
(* before the run stores anything further).                                *)
C10_ContextIsTenMostRecent ==
    (pc[TheRun] = "loop" /\ idx[TheRun] = 1) =>
        /\ Len(messages_context[TheRun]) <= HistoryLimit
        /\ messages_context[TheRun]
             = ContextOf(LastN(SortAscending(FindMessages(messages,
                                                          conversation_id[TheRun],
                                                          request[TheRun].user)),
                               HistoryLimit))

(* C11: a requested model string that matches no provider rule is         *)
(* silently skipped: the run never emits an event of any kind (start,      *)
(* chunk, complete, error) for it.                                         *)
C11_UnrecognizedIsSilent ==
    \A i \in Entries(TheRun) :
        ~Recognized(TheRun, i) =>
            CountOf(TheRun, i, {"start", "chunk", "complete", "error"}) = 0

\* the store as it was before the run: empty, or the earlier conversation
StoreUntouched ==
    \E n \in {0, MaxPrior} :
        messages = PriorMessages(n) /\ conversations = PriorConversations(n)

(* C12: a request whose model list is empty or whose message is empty      *)
(* fails as a whole before any branch starts: the run stores no Message    *)
(* row, creates or updates no Conversation row and emits no event.         *)
C12_InvalidRequestRejected ==
    (/\ pc[TheRun] # "idle"
     /\ request[TheRun].models = <<>> \/ request[TheRun].message = <<>>)
        => (StoreUntouched /\ events[TheRun] = <<>>)

\* the role and content of the rows user u owns
OwnContext(u) ==
    {[role |-> messages[k].role, content |-> messages[k].content] :
        k \in {k \in 1..Len(messages) : messages[k].user_id = u}}

(* C13: every store read and write of a run is scoped by the authenticated *)
(* user: a run by user U that supplies the id of a conversation owned by   *)
(* another user V loads only rows U owns into its context and leaves V's   *)
(* Conversation row (title, updated timestamp) as it was.                  *)
C13_ScopedByUser ==
    (/\ pc[TheRun] # "idle"
     /\ request[TheRun].user # "alice"
     /\ request[TheRun].conversation_id = PriorConvId)
        => /\ \A k \in 1..Len(messages_context[TheRun]) :
                messages_context[TheRun][k] \in OwnContext(request[TheRun].user)
           /\ \A k \in 1..Len(conversations) :
                conversations[k].user_id = "alice"
                    => conversations[k] = PriorConversations(MaxPrior)[1]

(* C14: every emitted event, error events included, carries the model and *)
(* a message_id, and the message_id of every event of a branch is the one  *)
(* its start event announced.                                              *)
C14_EveryEventCarriesMessageId ==
    \A k \in 1..Len(events[TheRun]) :
        /\ events[TheRun][k].model = request[TheRun].models[events[TheRun][k].entry]
        /\ events[TheRun][k].message_id # Absent
        /\ \E j \in 1..k :
              /\ events[TheRun][j].entry = events[TheRun][k].entry
              /\ events[TheRun][j].event = "start"
              /\ events[TheRun][j].message_id = events[TheRun][k].message_id

\* every requested model's branch has reached its terminal event
AllTerminal(r) ==
    /\ pc[r] \notin {"idle", "begin", "history"}
    /\ \A i \in Entries(r) : CountOf(r, i, Terminal) = 1

\* the Conversation rows carrying the conversation id of run r
ConversationRows(r) ==
    {k \in 1..Len(conversations) : conversations[k].id = conversation_id[r]}

\* the run's Conversation row has been written
Upserted(r) == pc[r] # "idle" /\ ConversationRows(r) # {}

(* C15: the Conversation upsert of a run happens only after every          *)
(* requested model's branch has reached its terminal event, it eventually  *)
(* happens once they all have, and no event is emitted after it; the row   *)
(* it writes has as title the first 50 characters of the run's user        *)
(* message and as updated timestamp the time of the upsert.                *)
C15_UpsertAfterAllBranches ==
    /\ [](Upserted(TheRun) => AllTerminal(TheRun))
    /\ AllTerminal(TheRun) ~> Upserted(TheRun)
    /\ [][Upserted(TheRun) => events'[TheRun] = events[TheRun]]_vars
    /\ [][conversations' # conversations =>
            \E k \in 1..Len(conversations') :
                /\ conversations'[k].id = conversation_id[TheRun]
                /\ conversations'[k].updated_at = clock
                /\ clock' > clock
                /\ Len(conversations'[k].title) <= TitleLimit
                /\ Len(conversations'[k].title) <= Len(request[TheRun].message)
                /\ Len(request[TheRun].message) <= TitleLimit
                     => Len(conversations'[k].title) = Len(request[TheRun].message)
                /\ Len(request[TheRun].message) > TitleLimit
                     => Len(conversations'[k].title) = TitleLimit
                /\ \A c \in 1..Len(conversations'[k].title) :
                     conversations'[k].title[c] = request[TheRun].message[c]]_vars

\* a finished run of one model whose message was longer than the title may
\* be: the branch has its terminal event and the stored title is cut short
C15_Witness ==
    /\ pc[TheRun] = "done"
    /\ Len(request[TheRun].models) = 1
    /\ CountOf(TheRun, 1, Terminal) = 1
    /\ Len(request[TheRun].message) > TitleLimit
    /\ \E k \in ConversationRows(TheRun) :
         /\ Len(conversations[k].title) = TitleLimit
         /\ conversations[k].title # request[TheRun].message

(* C16: after any number of finalizing steps for one conversation id      *)
(* there is exactly one Conversation row with that id, and a row keeps the *)
(* id, created_at and owner its insert gave it: later upserts change only  *)
(* title and updated_at, and never remove a row.                           *)
C16_UpsertIdempotent ==
    /\ [](\A k, l \in 1..Len(conversations) :
            conversations[k].id = conversations[l].id => k = l)
    /\ [](\A r \in Runs : pc[r] = "done" => Cardinality(ConversationRows(r)) = 1)
    /\ [][/\ Len(conversations') >= Len(conversations)
          /\ \A k \in 1..Len(conversations) :
                /\ conversations'[k].id = conversations[k].id
                /\ conversations'[k].created_at = conversations[k].created_at
                /\ conversations'[k].user_id = conversations[k].user_id]_vars

\* two finished turns on one conversation id, the first by bob on an empty
\* store and the second by alice: one row, bob's, with alice's title
C16_Witness ==
    /\ pc["r1"] = "done" /\ pc["r2"] = "done"
    /\ conversation_id["r1"] = conversation_id["r2"]
    /\ request["r1"].user = "bob" /\ request["r2"].user = "alice"
    /\ request["r1"].message = Hello /\ request["r2"].message = LongMessage
    /\ Len(conversations) = 1
    /\ conversations[1].user_id = "bob"
    /\ Len(conversations[1].title) = TitleLimit
    /\ conversations[1].updated_at > conversations[1].created_at

(* C17: once the terminal event (complete or error) of a branch has been  *)
(* emitted, the store holds a Message row with the branch's message_id     *)
(* whose content is the concatenation, in order, of the contents of the    *)
(* branch's chunk events (empty if there were none).                       *)
C17_RowBeforeTerminalEvent ==
    \A i \in Entries(TheRun) :
        CountOf(TheRun, i, Terminal) > 0 =>
            /\ Len(RowsOf(TheRun, i)) = 1
            /\ RowsOf(TheRun, i)[1].content = Concat(ChunksOf(TheRun, i))

\* the generator of run r has returned or raised
Ended(r) == pc[r] \in {"done", "aborted"}

\* the insert of the user row was rejected
UserInsertFailed(r) == pc[r] \notin {"idle", "begin"} /\ ~UserRowStored(r)

\* the loop went through the body of entry i to its insert (the branch was
\* not cut short for want of a credential) and the insert was rejected
AssistantInsertFailed(r, i) ==
    Finished(r, i) /\ ~MissingCredential(r, i) /\ Len(RowsOf(r, i)) = 0

\* the update_one of the Conversation row has been issued
UpsertAttempted(r) == Ended(r) /\ idx[r] > Len(request[r].models)

(* C18: when a store write fails during a run, be it the insert of an      *)
(* assistant row or the insert of the user row, the failure is surfaced as *)
(* an error event for the affected branch, the other branches are still    *)
(* processed, and the run does not end without having attempted the        *)
(* Conversation upsert.                                                    *)
C18_WriteFailureDoesNotAbort ==
    /\ \A i \in Entries(TheRun) :
          AssistantInsertFailed(TheRun, i) => CountOf(TheRun, i, {"error"}) = 1
    /\ (Ended(TheRun) /\ (UserInsertFailed(TheRun)
                          \/ \E i \in Entries(TheRun) : AssistantInsertFailed(TheRun, i)))
          => /\ \A j \in Entries(TheRun) : CountOf(TheRun, j, {"start"}) = 1
             /\ \A j \in Entries(TheRun) : CountOf(TheRun, j, Terminal) = 1
             /\ UpsertAttempted(TheRun)

(* C19: once the client has disconnected (the run is cancelled), at        *)
(* whatever point of the stream, no further adapter is invoked and no     *)
(* further event is produced, in the cancelling step or after it; and no  *)
(* step of a run, cancellation included, removes or changes a Message row  *)
(* that was already persisted.                                             *)
C19_CancellationStopsTheRun ==
    /\ [][pc'[TheRun] = "cancelled" =>
            /\ events'[TheRun] = events[TheRun]
            /\ adapterCalls'[TheRun] = adapterCalls[TheRun]
            /\ pc[TheRun] = "cancelled" => UNCHANGED vars]_vars
    /\ [][/\ Len(messages') >= Len(messages)
          /\ \A k \in 1..Len(messages) : messages'[k] = messages[k]]_vars

\* the client left while the second branch was streaming: the user row and
\* the first branch's row are stored, the adapter has fragments left
C19_Witness ==
    /\ pc[TheRun] = "cancelled"
    /\ idx[TheRun] = 2
    /\ gen[TheRun] # <<>>
    /\ CountOf(TheRun, 2, {"chunk"}) = 1
    /\ CountOf(TheRun, 2, Terminal) = 0
    /\ UserRowStored(TheRun)
    /\ Len(RowsOf(TheRun, 1)) = 1

\* what the claim says of the state an update_api_key call leaves behind
\* (keys_before and keys_after are the caller's api_keys around the call)
CredentialFollows(key_data, keys_before, keys_after, env) ==
    /\ key_data.use_universal
          => GetApiKey(keys_after, key_data.provider, env) = env
    /\ (~key_data.use_universal /\ key_data.api_key.present)
          => GetApiKey(keys_after, key_data.provider, env) = key_data.api_key.value
    /\ (~key_data.use_universal /\ ~key_data.api_key.present)
          => /\ key_data.provider \notin DOMAIN keys_after
             /\ GetApiKey(keys_after, key_data.provider, env) = ""
    /\ \A q \in Providers \ {key_data.provider} :
          /\ q \in DOMAIN keys_after <=> q \in DOMAIN keys_before
          /\ q \in DOMAIN keys_before => keys_after[q] = keys_before[q]

(* C20: after an update_api_key call for a provider the credential of that *)
(* provider resolves as the call said: to the shared fallback secret when  *)
(* use_universal is set (also with an api_key in the same call, also for a *)
(* user without an explicit key), to the given key when only api_key is    *)
(* set, to no credential (the key removed) when neither is; the caller's   *)
(* other providers and the other users' keys are unchanged.                *)
C20_CredentialFollowsLastUpdate ==
    [][\A u \in Users, key_data \in KeyUpdates :
         UpdateApiKey(u, key_data) =>
            /\ CredentialFollows(key_data, apiKeys[u], apiKeys'[u], envKey)
            /\ \A v \in Users \ {u} : apiKeys'[v] = apiKeys[v]]_vars

(* C21: a catch-up that found at least one message has built one message *)
(* from the selected prior messages and has re-invoked the streaming entry *)
(* point with it, for the caller, the given conversation and the new       *)
(* models, so that each new model gets its branch.                         *)
C21_CatchupReinvokesStream ==
    (returned.op = "catchup" /\ returned.status = 200) =>
        \E r \in Runs :
            /\ pc[r] # "idle"
            /\ request[r].user = returned.user
            /\ request[r].message = returned.chat_request.message
            /\ request[r].models = returned.chat_request.models
            /\ request[r].conversation_id = returned.chat_request.conversation_id

\* user u owns a Message row with this id
OwnsMessage(u, mid) ==
    \E k \in 1..Len(messages) : messages[k].id = mid /\ messages[k].user_id = u

(* C22: submit_feedback for a message id that does not exist, or whose row *)
(* belongs to another user, answers 404 and leaves every Message row as it *)
(* was.                                                                    *)
C22_FeedbackOnForeignMessage ==
    [][\A u \in Users, feedback \in FeedbackBodies :
         (SubmitFeedback(u, feedback) /\ ~OwnsMessage(u, feedback.message_id)) =>
            /\ returned'.status = 404
            /\ messages' = messages]_vars

\* bob has just rated a message of alice's and was answered 404, after
\* alice herself had rated it
C22_Witness ==
    /\ returned.op = "feedback"
    /\ returned.status = 404
    /\ returned.user = "bob"
    /\ returned.feedback = "down"
    /\ \E k \in 1..Len(messages) :
         /\ messages[k].id = returned.message_id
         /\ messages[k].user_id = "alice"
         /\ messages[k].feedback = "up"

(* C30: submit_feedback on a message that exists and is owned by the       *)
(* caller succeeds and leaves the message's feedback equal to the value    *)
(* submitted, also when that value is the one the message already has.     *)
C30_FeedbackOnOwnMessage ==
    [][\A u \in Users, feedback \in FeedbackBodies :
         (SubmitFeedback(u, feedback) /\ OwnsMessage(u, feedback.message_id)) =>
            /\ returned'.status = 200
            /\ \A k \in 1..Len(messages') :
                  (messages'[k].id = feedback.message_id /\ messages'[k].user_id = u)
                     => messages'[k].feedback = feedback.feedback]_vars

\* a text without the delimiter the re-chunking loop put at its end
TrimDelimiter(text) ==
    IF text # <<>> /\ text[Len(text)] = " " THEN SubSeq(text, 1, Len(text) - 1) ELSE text

(* C23: for any provider response, the fragments the single-shot adapter   *)
(* emits, concatenated and with the injected trailing delimiter trimmed,   *)
(* are the response itself, character for character, also when it holds    *)
(* consecutive spaces, line breaks or leading or trailing whitespace.      *)
C23_RechunkRoundTrip ==
    returned.op = "stream_emergent_model" =>
        TrimDelimiter(Concat(returned.fragments)) = returned.response

\* the user messages of conversation row k that its owner stored, oldest
\* first
UserTurns(k) ==
    SortAscending(SelectSeq(messages,
        LAMBDA m : /\ m.conversation_id = conversations[k].id
                   /\ m.user_id = conversations[k].user_id
                   /\ m.role = "user"))

(* C24: after any number of turns in a conversation, the title of its      *)
(* Conversation row is the first 50 characters of the conversation's first *)
(* user message.                                                           *)
C24_TitleFromFirstMessage ==
    \A k \in 1..Len(conversations) :
        UserTurns(k) # <<>> =>
            conversations[k].title = Take(UserTurns(k)[1].content, TitleLimit)

\* the role and content of the rows stored in the run's conversation, for
\* the run's user, before the run's own user row
EarlierTurns(r) ==
    {[role |-> messages[k].role, content |-> messages[k].content] :
        k \in {k \in 1..Len(messages) :
                 /\ messages[k].conversation_id = conversation_id[r]
                 /\ messages[k].user_id = request[r].user
                 /\ messages[k].id # user_message_id[r]
                 /\ \E j \in 1..Len(messages) :
                       /\ messages[j].id = user_message_id[r]
                       /\ messages[k].timestamp < messages[j].timestamp}}

(* C25: in every call of the single-shot adapter the user text sent to the *)
(* provider is the message of the current request, however long the        *)
(* conversation already is (10 or more stored messages included), and the  *)
(* preamble holds only messages that precede it.                           *)
C25_CurrentMessageIsSent ==
    \A k \in 1..Len(adapterCalls[TheRun]) :
        adapterCalls[TheRun][k].call.adapter = "emergent" =>
            /\ adapterCalls[TheRun][k].call.user_text = request[TheRun].message
            /\ \A p \in 1..Len(adapterCalls[TheRun][k].call.preamble) :
                  adapterCalls[TheRun][k].call.preamble[p] \in EarlierTurns(TheRun)

\* the lines received before the [DONE] sentinel (all, if there is none)
BeforeDone(lines) ==
    IF \E i \in 1..Len(lines) : lines[i].kind = "done"
    THEN SubSeq(lines, 1, (CHOOSE i \in 1..Len(lines) :
                              /\ lines[i].kind = "done"
                              /\ \A j \in 1..(i - 1) : lines[j].kind # "done") - 1)
    ELSE lines

\* the contents of the delta lines that carry content, in wire order
ContentBearing(lines) ==
    LET deltas == SelectSeq(lines, LAMBDA l : l.kind = "delta" /\ l.content # <<>>)
    IN  [i \in 1..Len(deltas) |-> deltas[i].content]

\* a fragment of the form {"error": ...}
IsErrorFragment(f) == StartsWith(f, <<"{", "\"", "e", "r", "r", "o", "r", "\"", ":">>)

(* C26: for any lines received, the token-stream adapter yields on a       *)
(* non-200 status one error fragment and nothing else; on status 200 one   *)
(* fragment for each delta line that carries content and precedes the      *)
(* [DONE] sentinel, in wire order, and nothing for any other line: lines   *)
(* after the sentinel, lines with a payload that is not well-formed and    *)
(* lines with empty content add nothing and end nothing.                   *)
C26_TokenStreamFragments ==
    returned.op = "stream_openai_compatible" =>
        IF returned.wire.status # 200
        THEN /\ Len(returned.fragments) = 1
             /\ IsErrorFragment(returned.fragments[1])
        ELSE returned.fragments = ContentBearing(BeforeDone(returned.wire.lines))

\* the rule table of the claim, in its order: family, and whether the
\* lower-cased model string matches
Families == <<"gpt", "claude", "gemini", "grok", "deepseek", "perplexity">>

RuleMatches(i, lower) ==
    CASE i = 1 -> Contains(<<"g","p","t">>, lower) \/ (lower # <<>> /\ lower[1] = "o")
      [] i = 2 -> Contains(<<"c","l","a","u","d","e">>, lower)
      [] i = 3 -> Contains(<<"g","e","m","i","n","i">>, lower)
      [] i = 4 -> Contains(<<"g","r","o","k">>, lower)
      [] i = 5 -> Contains(<<"d","e","e","p","s","e","e","k">>, lower)
      [] i = 6 -> \/ Contains(<<"p","e","r","p","l","e","x","i","t","y">>, lower)
                  \/ Contains(<<"s","o","n","a","r">>, lower)

\* the rules a model string matches
MatchingRules(model_spec) == {i \in 1..6 : RuleMatches(i, Lower(model_spec))}

\* the credential of a family as the user's stored keys and the shared key
\* give it
CredentialOf(u, family) ==
    IF family \notin DOMAIN apiKeys[u] THEN ""
    ELSE IF apiKeys[u][family] = "UNIVERSAL" THEN envKey
    ELSE apiKeys[u][family]

(* C27: a model string is routed to one family, that of the first rule of  *)
(* the fixed order (gpt or leading "o", claude, gemini, grok, deepseek,    *)
(* perplexity or sonar) that its lower-cased form matches, and to no       *)
(* family when it matches none; the credential looked up is that of the    *)
(* same family.                                                            *)
C27_FirstMatchingRule ==
    returned.op = "route" =>
        LET matching == MatchingRules(returned.model_spec) IN
        IF matching = {}
        THEN returned.route = NoRule
        ELSE LET first == CHOOSE i \in matching : \A j \in matching : i <= j IN
             /\ returned.route.rule = Families[first]
             /\ returned.route.adapter =
                   (IF first <= 3 THEN "emergent" ELSE "openai_compatible")
             /\ returned.api_key = CredentialOf(returned.user, Families[first])

\* a mixed-case model string that matches the claude rule and the gpt rule
\* was routed to gpt with alice's gpt key
C27_Witness ==
    /\ returned.op = "route"
    /\ returned.user = "alice"
    /\ returned.model_spec # Lower(returned.model_spec)
    /\ StartsWith(Lower(returned.model_spec), <<"c","l","a","u","d","e">>)
    /\ {1, 2} \subseteq MatchingRules(returned.model_spec)
    /\ returned.route.rule = "gpt"
    /\ returned.api_key = "sk-alice"

\* the branches, over both runs, whose start event announced message id mid
OwnersOf(mid) ==
    {b \in Runs \X (1..MaxModels) : b[2] \in Entries(b[1]) /\ mid \in StartIds(b[1], b[2])}

(* C28: however the steps of two runs interleave (same or different user,  *)
(* same or different conversation id, a model listed twice), the ids of    *)
(* the Message rows are pairwise distinct, every assistant row belongs to  *)
(* one branch and every run's user row is stored, a stored Message row is  *)
(* never changed or removed, and no two Conversation rows carry the same   *)
(* conversation id.                                                        *)
C28_RunsOwnDisjointRows ==
    /\ [](\A k, l \in 1..Len(messages) : messages[k].id = messages[l].id => k = l)
    /\ [](\A k \in 1..Len(messages) :
            messages[k].role = "assistant" => Cardinality(OwnersOf(messages[k].id)) = 1)
    /\ [](\A r \in Runs : pc[r] \notin {"idle", "begin"} => UserRowStored(r))
    /\ [][/\ Len(messages') >= Len(messages)
          /\ \A k \in 1..Len(messages) : messages'[k] = messages[k]]_vars
    /\ [](\A k, l \in 1..Len(conversations) :
            conversations[k].id = conversations[l].id => k = l)

(* C29: the session key of a branch is a function of its conversation id   *)
(* and model alone, and no other pair of conversation id and model has the *)
(* same key, ids and model names containing "-" included.                  *)
C29_SessionKeyIdentifiesPair ==
    returned.op = "session" =>
        /\ \A fresh \in SessionTexts :
              SessionId(returned.conversation_id, returned.model, fresh)
                 = returned.session_id
        /\ \A cid \in ClientConversationIds, model \in SessionModels :
              SessionId(cid, model, <<"u", "u", "i", "d">>) = returned.session_id
                 => cid = returned.conversation_id /\ model = returned.model

(* C31: no two user rows carry the same username, however two register   *)
(* calls interleave; a register call for a username that a row already     *)
(* carries answers 400 and adds no row.                                    *)
C31_UsernamesAreUnique ==
    /\ [](\A k, l \in 1..Len(users) : users[k].username = users[l].username => k = l)
    /\ [][\A r \in Runs, user_data \in UserBodies :
            Register(r, user_data) /\ FindUser(users, user_data.username) # {}
               => /\ pc'[r] = "rejected"
                  /\ returned'.status = 400
                  /\ users' = users]_vars

\* run r is a chat_stream run of user u on conversation cid that has ended
\* and whose user row the delete has removed: it began before the delete
\* was over
OverlappedOrPreceded(r, u, cid) ==
    /\ pc[r] \in {"done", "aborted"}
    /\ request[r].user = u
    /\ conversation_id[r] = cid
    /\ ~UserRowStored(r)

(* C32: once a delete_conversation call has completed and the chat_stream  *)
(* run of the same user that was in flight on the conversation has ended,  *)
(* the store holds no Conversation row and no Message row of that          *)
(* conversation for that user.                                             *)
C32_NothingSurvivesDelete ==
    \A d \in Runs, r \in Runs :
        (/\ pc[d] = "deleted"
         /\ OverlappedOrPreceded(r, args[d].current_user, args[d].conversation_id))
        => /\ \A k \in 1..Len(conversations) :
                ~(/\ conversations[k].id = args[d].conversation_id
                  /\ conversations[k].user_id = args[d].current_user)
           /\ \A k \in 1..Len(messages) :
                ~(/\ messages[k].conversation_id = args[d].conversation_id
                  /\ messages[k].user_id = args[d].current_user)

====
